---- MODULE Spec2Model ----
(***************************************************************************)
(* Model of the render-target abstraction (src/core/render_target.rs,      *)
(* src/core.rs) and of the paged terrain (src/renderer/geometry/terrain.rs)*)
(***************************************************************************)
EXTENDS Integers, Sequences, FiniteSets, Bags, TLC

\* ------------------------------------------------------------------------
\* terrain.rs: constants
\* ------------------------------------------------------------------------
PATCH_SIZE == 16
\* half the side of the patch window the paging is checked with; the source
\* sets PATCHES_PER_SIDE = 33 (HalfSide 16), the paging code depends on the
\* value only through the two constants below
HalfSide == 2
PATCHES_PER_SIDE == 2 * HalfSide + 1
HALF_PATCHES_PER_SIDE == (PATCHES_PER_SIDE - 1) \div 2
VERTICES_PER_UNIT == 4
VERTICES_PER_SIDE == (PATCH_SIZE + 1) * VERTICES_PER_UNIT

\* farthest patch coordinate a reference position is taken from
FarPatch == 8

\* world coordinates (x or z of a position) the reference position is drawn from
WorldCoords == {-1, 0, PATCH_SIZE, 2 * PATCH_SIZE + 8, FarPatch * PATCH_SIZE + 3}

Abs(n) == IF n < 0 THEN -n ELSE n

VARIABLES
    center,     \* Terrain.center, <<x, y>>
    patches,    \* Terrain.patches, the bag of the <<ix, iy>> of the live GroundPatches
    created,    \* number of GroundPatch::new calls made by the last new/update
    trail       \* the values center took during the last new/update, in order

terrainVars == <<center, patches, created, trail>>

\* Terrain::pos2patch: floor(x / PATCH_SIZE), floor(z / PATCH_SIZE)
pos2patch(position) ==
    <<position[1] \div PATCH_SIZE, position[2] \div PATCH_SIZE>>

\* the range  c - HALF_PATCHES_PER_SIDE .. c + HALF_PATCHES_PER_SIDE + 1  (exclusive end)
SideRange(c) == (c - HALF_PATCHES_PER_SIDE) .. (c + HALF_PATCHES_PER_SIDE)

\* the GroundPatch::new calls of one x step: (ix, iy) for iy over the window of cy
ColumnPatches_mut(ix, cy) ==
    {<<ix, iy>> : iy \in (cy - HALF_PATCHES_PER_SIDE)..(cy + HALF_PATCHES_PER_SIDE - 1)}

ColumnPatches(ix, cy) == {<<ix, iy>> : iy \in SideRange(cy)}

\* the GroundPatch::new calls of one y step: (ix, iy) for ix over the window of cx
RowPatches_mut(cx, iy) == {<<ix, iy>> : ix \in SideRange(cx - 1)}

RowPatches(cx, iy) == {<<ix, iy>> : ix \in SideRange(cx)}

\* patches.push(..) for each patch of a step
Push(st, c, new) ==
    [center  |-> c,
     patches |-> st.patches (+) SetToBag(new),
     created |-> st.created + Cardinality(new),
     trail   |-> Append(st.trail, c)]

\* patches.retain(|p| |x0 - p.ix| <= HALF && |y0 - p.iy| <= HALF)
Retain_mut(ps, x0, y0) ==
    LET keep == {p \in DOMAIN ps : /\ Abs(x0 - p[1]) < HALF_PATCHES_PER_SIDE
                                   /\ Abs(y0 - p[2]) <= HALF_PATCHES_PER_SIDE}
    IN  [p \in keep |-> ps[p]]

Retain(ps, x0, y0) ==
    LET keep == {p \in DOMAIN ps : /\ Abs(x0 - p[1]) <= HALF_PATCHES_PER_SIDE
                                   /\ Abs(y0 - p[2]) <= HALF_PATCHES_PER_SIDE}
    IN  [p \in keep |-> ps[p]]

\* the four while loops of Terrain::update, in the order of the source;
\* st = [center, patches, created, trail]
RECURSIVE XUp(_, _)
XUp(st, x0) ==
    IF x0 > st.center[1]
    THEN LET c == <<st.center[1] + 1, st.center[2]>>
         IN  XUp(Push(st, c, ColumnPatches(c[1] + HALF_PATCHES_PER_SIDE, c[2])), x0)
    ELSE st

RECURSIVE XDown(_, _)
XDown(st, x0) ==
    IF x0 < st.center[1]
    THEN LET c == <<st.center[1] - 1, st.center[2]>>
         IN  XDown(Push(st, c, ColumnPatches(c[1] - HALF_PATCHES_PER_SIDE, c[2])), x0)
    ELSE st

RECURSIVE YUp(_, _)
YUp(st, y0) ==
    IF y0 > st.center[2]
    THEN LET c == <<st.center[1], st.center[2] + 1>>
         IN  YUp(Push(st, c, RowPatches(c[1], c[2] + HALF_PATCHES_PER_SIDE)), y0)
    ELSE st

RECURSIVE YDown(_, _)
YDown(st, y0) ==
    IF y0 < st.center[2]
    THEN LET c == <<st.center[1], st.center[2] - 1>>
         IN  YDown(Push(st, c, RowPatches(c[1], c[2] - HALF_PATCHES_PER_SIDE)), y0)
    ELSE st

\* Terrain::update as a function of the state before the call
UpdateResult_mut(c, ps, position) ==
    LET t  == pos2patch(position)
        s0 == [center |-> c, patches |-> ps, created |-> 0, trail |-> <<c>>]
        s4 == XDown(XUp(YDown(YUp(s0, t[2]), t[2]), t[1]), t[1])
    IN  [s4 EXCEPT !.patches = Retain(s4.patches, t[1], t[2])]

UpdateResult(c, ps, position) ==
    LET t  == pos2patch(position)
        s0 == [center |-> c, patches |-> ps, created |-> 0, trail |-> <<c>>]
        s4 == YDown(YUp(XDown(XUp(s0, t[1]), t[1]), t[2]), t[2])
    IN  [s4 EXCEPT !.patches = Retain(s4.patches, t[1], t[2])]

\* Terrain::new
TerrainNew(position) ==
    LET c == pos2patch(position)
    IN  /\ center = c
        /\ patches = SetToBag({<<ix, iy>> : ix \in SideRange(c[1]), iy \in SideRange(c[2])})
        /\ created = PATCHES_PER_SIDE * PATCHES_PER_SIDE
        /\ trail = <<c>>

\* Terrain::update
TerrainUpdate(position) ==
    LET r == UpdateResult(center, patches, position)
    IN  /\ center' = r.center
        /\ patches' = r.patches
        /\ created' = r.created
        /\ trail' = r.trail


\* ------------------------------------------------------------------------
\* terrain.rs: GroundPatch::index_buffer
\* ------------------------------------------------------------------------
\* largest |coordinate| of the patch and of the camera patch that are tried
LodRange == 5

VARIABLES
    patch,      \* <<ix, iy>> of the GroundPatch being rendered
    camera,     \* <<x0, y0>>, the camera's patch coordinate of the last render
    selected    \* name of the element buffer the last render drew with

lodVars == <<patch, camera, selected>>

\* GroundPatch::index_buffer
index_buffer(ix, iy, x0, y0) ==
    LET dist == Abs(ix - x0) + Abs(iy - y0)
    IN  IF dist > 4 THEN "very_coarse_index_buffer"
        ELSE IF dist > 8 THEN "coarse_index_buffer"
        ELSE "index_buffer"

\* GroundPatch::new (the coordinates only)
GroundPatchNew(ix, iy) ==
    /\ patch = <<ix, iy>>
    /\ camera = <<ix, iy>>
    /\ selected = "none"

\* GroundPatch::render_with_material: the index buffer handed to draw_elements
RenderWithMaterial(position) ==
    LET x0 == position[1] \div PATCH_SIZE
        y0 == position[2] \div PATCH_SIZE
    IN  /\ camera' = <<x0, y0>>
        /\ selected' = index_buffer(patch[1], patch[2], x0, y0)
        /\ UNCHANGED patch

\* ------------------------------------------------------------------------
\* terrain.rs: GroundPatch::indices, one inner-loop iteration per step
\* ------------------------------------------------------------------------
Resolutions == {1, 4, 8}

VARIABLES
    resolution, \* the argument of GroundPatch::indices
    row,        \* loop variable r
    col,        \* loop variable c
    indices,    \* the Vec<u32> built so far
    ipc         \* "loop" while the loops run, "done" once indices is returned

indicesVars == <<resolution, row, col, indices, ipc>>

\* let stride = VERTICES_PER_SIDE as u32
Stride == VERTICES_PER_SIDE

\* let max = (stride - 1) / resolution
IndicesMax_wide(res) == (Stride + res - 1) \div res

IndicesMax_mut(res) == Stride \div res

IndicesMax(res) == (Stride - 1) \div res

\* the six indices pushed by the loop body for (r, c)
IndicesBody(res, r, c) ==
    << r * res + c * res * Stride,
       r * res + res + c * res * Stride,
       r * res + (c * res + res) * Stride,
       r * res + (c * res + res) * Stride,
       r * res + res + c * res * Stride,
       r * res + res + (c * res + res) * Stride >>

IndicesStart(res) ==
    /\ resolution = res
    /\ row = 0
    /\ col = 0
    /\ indices = <<>>
    /\ ipc = "loop"

\* one iteration of the inner loop
IndicesStep ==
    /\ ipc = "loop"
    /\ row < IndicesMax(resolution)
    /\ col < IndicesMax(resolution)
    /\ indices' = indices \o IndicesBody(resolution, row, col)
    /\ IF col + 1 < IndicesMax(resolution)
       THEN col' = col + 1 /\ row' = row
       ELSE col' = 0 /\ row' = row + 1
    /\ UNCHANGED <<resolution, ipc>>

\* the loops are over: return indices
IndicesReturn ==
    /\ ipc = "loop"
    /\ \/ row >= IndicesMax(resolution)
       \/ col >= IndicesMax(resolution)
    /\ ipc' = "done"
    /\ UNCHANGED <<resolution, row, col, indices>>


\* ------------------------------------------------------------------------
\* core.rs: flip_y
\* ------------------------------------------------------------------------
MaxWidth == 3
MaxHeight == 5
\* elements of the slice beyond width * height
MaxExtra == 1
MaxFlips == 2

VARIABLES
    fwidth,     \* the width argument
    fheight,    \* the height argument
    pixels,     \* the slice flip_y works on
    original,   \* the slice before the first flip_y
    flips       \* number of flip_y calls made on pixels

flipVars == <<fwidth, fheight, pixels, original, flips>>

\* slice::swap(i, j), indices from 0
swap_mut(s, i, j) == [s EXCEPT ![i + 1] = s[j + 1]]

swap(s, i, j) == [s EXCEPT ![i + 1] = s[j + 1], ![j + 1] = s[i + 1]]

\* number of rows the outer loop of flip_y visits
FlipRows_mut(height) == height

FlipRows(height) == height \div 2

\* the two loops of flip_y, from (row, col) on
RECURSIVE FlipLoop(_, _, _, _, _)
FlipLoop(p, width, height, r, c) ==
    IF r >= FlipRows(height) THEN p
    ELSE IF c >= width THEN FlipLoop(p, width, height, r + 1, 0)
    ELSE LET index0 == width * r + c
             index1 == width * (height - r - 1) + c
         IN  FlipLoop(swap(p, index0, index1), width, height, r, c + 1)

flip_y(p, width, height) == FlipLoop(p, width, height, 0, 0)

\* a slice of width * height + extra elements, each element labelled by its
\* position (flip_y is generic in the element type and only moves elements)
FlipStart(w, h, extra) ==
    /\ fwidth = w
    /\ fheight = h
    /\ pixels = [i \in 1..(w * h + extra) |-> i]
    /\ original = pixels
    /\ flips = 0

FlipY ==
    /\ flips < MaxFlips
    /\ pixels' = flip_y(pixels, fwidth, fheight)
    /\ flips' = flips + 1
    /\ UNCHANGED <<fwidth, fheight, original>>

\* ------------------------------------------------------------------------
\* core/render_target.rs: RenderTarget
\* ------------------------------------------------------------------------
MaxTargets == 2
MaxHandles == 2
\* from_framebuffer is not offered a handle deleted this many times
MaxDeletes == 2

\* Option<Framebuffer>::None; the handles create_framebuffer returns are 1, 2, ...
None == 0
Handles == 1..MaxHandles
Slots == 1..MaxTargets
\* the widths and heights attachments, screens and scissor boxes are given
Dims == {1, 2}

\* a ColorTarget or DepthTarget is <<width(), height()>>; Option::None is <<>>
NoAttachment == <<>>
Attachments == {<<w, h>> : w \in Dims, h \in Dims}

\* a variable that holds no RenderTarget
NoTarget == [live |-> FALSE, id |-> None, color |-> NoAttachment,
             depth |-> NoAttachment, width |-> 0, height |-> 0]

NoBox == [x |-> 0, y |-> 0, width |-> 0, height |-> 0]

\* the scissor boxes passed to the _partially operations
ScissorBoxes == {[x |-> 1, y |-> 0, width |-> 1, height |-> 2]}

VARIABLES
    rts,        \* the RenderTarget each of the caller's variables holds, or NoTarget
    allocated,  \* number of framebuffers create_framebuffer has returned
    held,       \* the framebuffer handles the caller got from into_framebuffer
    deleted,    \* per handle, the number of delete_framebuffer calls made on it
    aliased,    \* per handle, whether from_framebuffer got it while a live target
                \* held it or after it was deleted
    gl,         \* context state: bound draw and read framebuffer, scissor box
    last,       \* the last call: operation, target it was made on, arguments
    log,        \* the context calls the last call made, in order
    result      \* "ok" if the last call returned, "panic" if it panicked

VARIABLES
    xfer        \* the pixel transfer of the last read_color / read_depth

VARIABLES
    lts,        \* rendertarget.rs: the render target each variable holds
    lgl,        \* rendertarget.rs: framebuffer bound for drawing and for reading
    lcall       \* rendertarget.rs: the last call and what it did

legacyVars == <<lts, lgl, lcall>>

rtVars == <<rts, allocated, held, deleted, aliased, gl, last, log, result, xfer, legacyVars>>

Call(op, t, box, c, d) == [op |-> op, tgt |-> t, box |-> box, color |-> c, depth |-> d]

\* RenderTarget::screen
RenderTargetScreen(width, height) ==
    [live |-> TRUE, id |-> None, color |-> NoAttachment, depth |-> NoAttachment,
     width |-> width, height |-> height]

\* RenderTarget::new
RenderTargetNew(color, depth, fb) ==
    [live |-> TRUE, id |-> fb, color |-> color, depth |-> depth,
     width |-> color[1], height |-> color[2]]

\* RenderTarget::new_color
RenderTargetNewColor(color, fb) ==
    [live |-> TRUE, id |-> fb, color |-> color, depth |-> NoAttachment,
     width |-> color[1], height |-> color[2]]

\* RenderTarget::new_depth
RenderTargetNewDepth(depth, fb) ==
    [live |-> TRUE, id |-> fb, color |-> NoAttachment, depth |-> depth,
     width |-> depth[1], height |-> depth[2]]

\* RenderTarget::from_framebuffer
RenderTargetFromFramebuffer(width, height, fb) ==
    [live |-> TRUE, id |-> fb, color |-> NoAttachment, depth |-> NoAttachment,
     width |-> width, height |-> height]

\* RenderTarget::scissor_box
scissor_box(t) == [x |-> 0, y |-> 0, width |-> t.width, height |-> t.height]

\* RenderTarget::bind: the context calls
BindLog(target, t) ==
    <<IF target = "DRAW" THEN "bind_draw_framebuffer" ELSE "bind_read_framebuffer">>
        \o (IF t.color # NoAttachment THEN <<"bind_color">> ELSE <<>>)
        \o (IF t.depth # NoAttachment THEN <<"bind_depth">> ELSE <<>>)

\* impl Drop for RenderTarget: the context calls
DropLog(t) == IF t.id # None THEN <<"delete_framebuffer">> ELSE <<>>

\* impl Drop for RenderTarget: the delete counts
DropDeleted(t) ==
    IF t.id # None THEN [deleted EXCEPT ![t.id] = @ + 1] ELSE deleted

\* a constructor puts its target in the free variable s, after the context
\* calls it makes
Construct(s, op, t, calls) ==
    /\ rts[s] = NoTarget
    /\ rts' = [rts EXCEPT ![s] = t]
    /\ last' = Call(op, t, NoBox, FALSE, FALSE)
    /\ log' = calls
    /\ result' = "ok"
    /\ UNCHANGED <<held, deleted, gl>>

\* new_framebuffer: context.create_framebuffer().expect("Failed creating frame
\* buffer"); what the constructor does when create_framebuffer returns Err
new_framebuffer(created_ok) == IF created_ok THEN "ok" ELSE "panic"

\* new, new_color or new_depth when create_framebuffer returns Err: no target
ConstructFails(s, op) ==
    /\ rts[s] = NoTarget
    /\ last' = Call(op, NoTarget, NoBox, FALSE, FALSE)
    /\ log' = <<"create_framebuffer">>
    /\ result' = new_framebuffer(FALSE)
    /\ UNCHANGED <<rts, allocated, held, deleted, aliased, gl>>

Screen(s, width, height) ==
    /\ Construct(s, "screen", RenderTargetScreen(width, height), <<>>)
    /\ UNCHANGED <<allocated, aliased>>

\* new, new_color, new_depth: new_framebuffer returns the next handle of the
\* context (create_framebuffer succeeded)
New(s, color, depth) ==
    /\ allocated < MaxHandles
    /\ allocated' = allocated + 1
    /\ Construct(s, "new", RenderTargetNew(color, depth, allocated + 1),
                 <<"create_framebuffer">>)
    /\ UNCHANGED aliased

NewColor(s, color) ==
    /\ allocated < MaxHandles
    /\ allocated' = allocated + 1
    /\ Construct(s, "new_color", RenderTargetNewColor(color, allocated + 1),
                 <<"create_framebuffer">>)
    /\ UNCHANGED aliased

NewDepth(s, depth) ==
    /\ allocated < MaxHandles
    /\ allocated' = allocated + 1
    /\ Construct(s, "new_depth", RenderTargetNewDepth(depth, allocated + 1),
                 <<"create_framebuffer">>)
    /\ UNCHANGED aliased

FromFramebuffer(s, width, height, fb) ==
    /\ fb \in held
    /\ deleted[fb] < MaxDeletes
    /\ Construct(s, "from_framebuffer", RenderTargetFromFramebuffer(width, height, fb), <<>>)
    /\ aliased' = [aliased EXCEPT ![fb] =
                      \/ @
                      \/ deleted[fb] > 0
                      \/ \E o \in Slots : rts[o].live /\ rts[o].id = fb]
    /\ UNCHANGED allocated

\* self.id.take(): the target that is left
take_id_mut(t) == t

take_id(t) == [t EXCEPT !.id = None]

\* RenderTarget::into_framebuffer: id.take(), then self is dropped
IntoFramebuffer(s) ==
    LET t     == rts[s]
        taken == take_id(t)
    IN  /\ t.live
        /\ rts' = [rts EXCEPT ![s] = NoTarget]
        /\ held' = IF t.id # None THEN held \cup {t.id} ELSE held
        /\ deleted' = DropDeleted(taken)
        /\ log' = DropLog(taken)
        /\ last' = Call("into_framebuffer", t, NoBox, FALSE, FALSE)
        /\ result' = "ok"
        /\ UNCHANGED <<allocated, aliased, gl>>

\* the RenderTarget in variable s goes out of scope
DropTarget(s) ==
    LET t == rts[s]
    IN  /\ t.live
        /\ rts' = [rts EXCEPT ![s] = NoTarget]
        /\ deleted' = DropDeleted(t)
        /\ log' = DropLog(t)
        /\ last' = Call("drop", t, NoBox, FALSE, FALSE)
        /\ result' = "ok"
        /\ UNCHANGED <<allocated, held, aliased, gl>>

\* RenderTarget::write_partially: the context calls, given those of the closure
WriteLog_mut(t, closure) ==
    <<"set_scissor">> \o BindLog("DRAW", t)
        \o (IF t.color # NoAttachment THEN <<"generate_mip_maps">> ELSE <<>>)
        \o closure

WriteLog(t, closure) ==
    <<"set_scissor">> \o BindLog("DRAW", t) \o closure
        \o (IF t.color # NoAttachment THEN <<"generate_mip_maps">> ELSE <<>>)

\* RenderTarget::write_partially: the context state it leaves
WriteGl(t, box) == [gl EXCEPT !.scissor = box, !.draw = t.id]

\* RenderTarget::write_partially with a closure of the caller
WritePartially(s, box) ==
    LET t == rts[s]
    IN  /\ t.live
        /\ log' = WriteLog(t, <<"render">>)
        /\ gl' = WriteGl(t, box)
        /\ last' = Call("write", t, box, FALSE, FALSE)
        /\ result' = "ok"
        /\ UNCHANGED <<rts, allocated, held, deleted, aliased>>

\* RenderTarget::write
Write(s) == rts[s].live /\ WritePartially(s, scissor_box(rts[s]))

\* fn copy_from: whether the effect is applied (one draw)
copy_from_mut(color_texture, depth_texture) == TRUE

copy_from(color_texture, depth_texture) == color_texture \/ depth_texture

\* fn copy_from_array: whether the effect is applied (one draw)
copy_from_array(color_texture, depth_texture) == color_texture \/ depth_texture

\* RenderTarget::copy_from: write(|| copy_from(..)); the arguments say whether
\* the color and the depth source are Some
CopyFrom(s, color_texture, depth_texture) ==
    LET t == rts[s]
    IN  /\ t.live
        /\ log' = WriteLog(t, IF copy_from(color_texture, depth_texture)
                              THEN <<"draw">> ELSE <<>>)
        /\ gl' = WriteGl(t, scissor_box(t))
        /\ last' = Call("copy_from", t, scissor_box(t), color_texture, depth_texture)
        /\ result' = "ok"
        /\ UNCHANGED <<rts, allocated, held, deleted, aliased>>

\* RenderTarget::copy_from_array
CopyFromArray(s, color_texture, depth_texture) ==
    LET t == rts[s]
    IN  /\ t.live
        /\ log' = WriteLog(t, IF copy_from_array(color_texture, depth_texture)
                              THEN <<"draw">> ELSE <<>>)
        /\ gl' = WriteGl(t, scissor_box(t))
        /\ last' = Call("copy_from_array", t, scissor_box(t), color_texture, depth_texture)
        /\ result' = "ok"
        /\ UNCHANGED <<rts, allocated, held, deleted, aliased>>

\* the panic guard of read_color_partially
ReadColorPanics_mut(t) == t.color = NoAttachment

ReadColorPanics(t) == t.id # None /\ t.color = NoAttachment

\* RenderTarget::read_color_partially
ReadColorPartially(s, box) ==
    LET t == rts[s]
    IN  /\ t.live
        /\ last' = Call("read_color", t, box, FALSE, FALSE)
        /\ IF ReadColorPanics(t)
           THEN /\ result' = "panic"
                /\ log' = <<>>
                /\ gl' = gl
           ELSE /\ result' = "ok"
                /\ log' = BindLog("DRAW", t) \o BindLog("READ", t) \o <<"read_pixels">>
                /\ gl' = [gl EXCEPT !.draw = t.id, !.read = t.id]
        /\ UNCHANGED <<rts, allocated, held, deleted, aliased>>

\* RenderTarget::read_color
ReadColor(s) == rts[s].live /\ ReadColorPartially(s, scissor_box(rts[s]))

NoXfer == [type |-> <<>>, format |-> "none", bytes |-> 0, data |-> <<>>]

XferIdle == xfer = NoXfer

\* ------------------------------------------------------------------------
\* lib/core/src/rendertarget.rs: ScreenRendertarget, ColorRendertarget,
\* DepthRenderTarget
\* ------------------------------------------------------------------------
\* a variable that holds no render target; the screen's framebuffer is None
NoLegacyTarget == [kind |-> "none", id |-> None]

\* a call on a target whose framebuffer is own; from is the framebuffer that
\* read_pixels / read_depths read, for the calls that read
LegacyCall(op, own, from, res) == [op |-> op, own |-> own, from |-> from, result |-> res]

NoLegacyCall == LegacyCall("none", None, None, "ok")

\* no target yet; made counts the framebuffers create_framebuffer returned
LegacyIdle ==
    /\ lts = [s \in Slots |-> NoLegacyTarget]
    /\ lgl = [draw |-> None, read |-> None, made |-> 0]
    /\ lcall = NoLegacyCall

\* ScreenRendertarget::new
ScreenRendertargetNew(s) ==
    /\ lts[s].kind = "none"
    /\ lts' = [lts EXCEPT ![s] = [kind |-> "screen", id |-> None]]
    /\ lcall' = LegacyCall("new", None, None, "ok")
    /\ UNCHANGED lgl

\* ColorRendertarget::new and DepthRenderTarget::new: generate(gl)?, then
\* bind(gl, &id, width, height)
GeneratedNew(s, kind) ==
    /\ lts[s].kind = "none"
    /\ lgl.made < MaxHandles
    /\ lts' = [lts EXCEPT ![s] = [kind |-> kind, id |-> lgl.made + 1]]
    /\ lgl' = [lgl EXCEPT !.made = @ + 1, !.draw = lgl.made + 1]
    /\ lcall' = LegacyCall("new", lgl.made + 1, None, "ok")

\* the same when create_framebuffer returns None: generate returns
\* Err(Error::FailedToCreateFramebuffer) and `?` returns it to the caller
GenerateFails(s) ==
    /\ lts[s].kind = "none"
    /\ lcall' = LegacyCall("new", None, None, "err")
    /\ UNCHANGED <<lts, lgl>>

\* Rendertarget::bind: bind_framebuffer(DRAW_FRAMEBUFFER, ..), viewport
legacy_bind(g, id) == [g EXCEPT !.draw = id]

\* Rendertarget::bind_for_read: bind_framebuffer(READ_FRAMEBUFFER, ..)
legacy_bind_for_read(g, id) == [g EXCEPT !.read = id]

LegacyBind(s) ==
    /\ lts[s].kind # "none"
    /\ lgl' = legacy_bind(lgl, lts[s].id)
    /\ lcall' = LegacyCall("bind", lts[s].id, None, "ok")
    /\ UNCHANGED lts

LegacyBindForRead(s) ==
    /\ lts[s].kind # "none"
    /\ lgl' = legacy_bind_for_read(lgl, lts[s].id)
    /\ lcall' = LegacyCall("bind_for_read", lts[s].id, None, "ok")
    /\ UNCHANGED lts

\* Rendertarget::clear: touches no binding
LegacyClear(s) ==
    /\ lts[s].kind # "none"
    /\ lcall' = LegacyCall("clear", lts[s].id, None, "ok")
    /\ UNCHANGED <<lts, lgl>>

\* pixels(): self.bind(), then read_pixels, which reads the framebuffer bound
\* to READ_FRAMEBUFFER
LegacyPixels(s) ==
    /\ lts[s].kind \in {"screen", "color"}
    /\ lgl' = legacy_bind(lgl, lts[s].id)
    /\ lcall' = LegacyCall("pixels", lts[s].id, lgl'.read, "ok")
    /\ UNCHANGED lts

\* depths(): self.bind(), then read_depths
LegacyDepths(s) ==
    /\ lts[s].kind # "none"
    /\ lgl' = legacy_bind(lgl, lts[s].id)
    /\ lcall' = LegacyCall("depths", lts[s].id, lgl'.read, "ok")
    /\ UNCHANGED lts

\* the target in variable s goes out of scope; impl Drop for ColorRendertarget
\* and DepthRenderTarget: delete_framebuffer, which unbinds the framebuffer
LegacyDropTarget(s) ==
    LET id == lts[s].id
    IN  /\ lts[s].kind # "none"
        /\ lts' = [lts EXCEPT ![s] = NoLegacyTarget]
        /\ lgl' = IF id = None THEN lgl
                  ELSE [lgl EXCEPT !.draw = IF @ = id THEN None ELSE @,
                                   !.read = IF @ = id THEN None ELSE @]
        /\ lcall' = LegacyCall("drop", id, None, "ok")

\* the pixel types T of read_color: <<channels, bytes per channel>>
PixelTypes == {<<n, b>> : n \in 1..4, b \in {1, 2, 4}}

\* T::size(), the number of channels, and std::mem::size_of::<T>()
T_size(T) == T[1]
size_of(T) == T[1] * T[2]

\* core.rs format_from_data_type
format_from_data_type(T) ==
    CASE T_size(T) = 1 -> "RED"
      [] T_size(T) = 2 -> "RG"
      [] T_size(T) = 3 -> "RGB"
      [] T_size(T) = 4 -> "RGBA"

\* read_color_partially: data_size, the bytes of the buffer per pixel
data_size(T) ==
    IF size_of(T) \div T_size(T) = 1
    THEN size_of(T) * (4 \div T_size(T))
    ELSE size_of(T)

\* core.rs from_byte_slice: the values of a buffer of nbytes bytes seen as
\* values of `size` bytes; read_pixels wrote the first `written` values, in the
\* order of the framebuffer (value i is pixel i, rows from the bottom), the
\* others are the 0 the buffer was created with
from_byte_slice(nbytes, size, written) ==
    [i \in 1..(nbytes \div size) |-> IF i <= written THEN i ELSE 0]

\* read_color_partially::<T>: format, buffer and returned pixels
read_color_xfer(box, T) ==
    LET nbytes == box.width * box.height * data_size(T)
    IN  [type   |-> T,
         format |-> format_from_data_type(T),
         bytes  |-> nbytes,
         data   |-> flip_y(from_byte_slice(nbytes, size_of(T), box.width * box.height),
                           box.width, box.height)]

\* read_depth_partially: format, buffer and returned depths (f32)
read_depth_xfer(box) ==
    LET nbytes == box.width * box.height * 4
    IN  [type   |-> <<1, 4>>,
         format |-> "DEPTH_COMPONENT",
         bytes  |-> nbytes,
         data   |-> from_byte_slice(nbytes, 4, box.width * box.height)]

\* RenderTarget::read_color_partially::<T>, with what it returns
ReadColorPartiallyAs(s, box, T) ==
    /\ ReadColorPartially(s, box)
    /\ xfer' = IF ReadColorPanics(rts[s]) THEN NoXfer ELSE read_color_xfer(box, T)

\* RenderTarget::read_color::<T>
ReadColorAs(s, T) == rts[s].live /\ ReadColorPartiallyAs(s, scissor_box(rts[s]), T)

\* the panic guard of read_depth_partially
ReadDepthPanics_mut(t) == t.id # None /\ t.color = NoAttachment

ReadDepthPanics(t) == t.id # None /\ t.depth = NoAttachment

\* RenderTarget::read_depth_partially
ReadDepthPartially(s, box) ==
    LET t == rts[s]
    IN  /\ t.live
        /\ last' = Call("read_depth", t, box, FALSE, FALSE)
        /\ IF ReadDepthPanics(t)
           THEN /\ result' = "panic"
                /\ log' = <<>>
                /\ gl' = gl
                /\ xfer' = NoXfer
           ELSE /\ result' = "ok"
                /\ log' = BindLog("DRAW", t) \o BindLog("READ", t) \o <<"read_pixels">>
                /\ gl' = [gl EXCEPT !.draw = t.id, !.read = t.id]
                /\ xfer' = read_depth_xfer(box)
        /\ UNCHANGED <<rts, allocated, held, deleted, aliased>>

\* RenderTarget::read_depth
ReadDepth(s) == rts[s].live /\ ReadDepthPartially(s, scissor_box(rts[s]))

RtInit ==
    /\ rts = [s \in Slots |-> NoTarget]
    /\ allocated = 0
    /\ held = {}
    /\ deleted = [h \in Handles |-> 0]
    /\ aliased = [h \in Handles |-> FALSE]
    /\ gl = [draw |-> None, read |-> None, scissor |-> NoBox]
    /\ last = Call("none", NoTarget, NoBox, FALSE, FALSE)
    /\ log = <<>>
    /\ result = "ok"
    /\ XferIdle
    /\ LegacyIdle

\* ------------------------------------------------------------------------
\* specifications: one per component, the other components stand still
\* ------------------------------------------------------------------------
vars == <<terrainVars, lodVars, indicesVars, flipVars, rtVars>>

TerrainIdle ==
    /\ center = <<0, 0>>
    /\ patches = EmptyBag
    /\ created = 0
    /\ trail = <<>>

LodIdle == patch = <<0, 0>> /\ camera = <<0, 0>> /\ selected = "none"

IndicesIdle ==
    /\ resolution = 1
    /\ row = 0
    /\ col = 0
    /\ indices = <<>>
    /\ ipc = "idle"

FlipIdle ==
    /\ fwidth = 0
    /\ fheight = 0
    /\ pixels = <<>>
    /\ original = <<>>
    /\ flips = 0

\* Terrain
TerrainInit ==
    /\ \E x \in WorldCoords, z \in WorldCoords : TerrainNew(<<x, z>>)
    /\ LodIdle /\ IndicesIdle /\ FlipIdle /\ RtInit

Update ==
    /\ \E x \in WorldCoords, z \in WorldCoords : TerrainUpdate(<<x, z>>)
    /\ UNCHANGED <<lodVars, indicesVars, flipVars, rtVars>>

TerrainNext == Update

SpecTerrain == TerrainInit /\ [][TerrainNext]_vars

\* GroundPatch::index_buffer
LodCoords == (-LodRange)..LodRange

PatchInit ==
    /\ \E ix \in LodCoords, iy \in LodCoords : GroundPatchNew(ix, iy)
    /\ TerrainIdle /\ IndicesIdle /\ FlipIdle /\ RtInit

Render ==
    /\ \E x \in LodCoords, z \in LodCoords :
          RenderWithMaterial(<<x * PATCH_SIZE + 5, z * PATCH_SIZE + 5>>)
    /\ UNCHANGED <<terrainVars, indicesVars, flipVars, rtVars>>

PatchNext == Render

SpecPatch == PatchInit /\ [][PatchNext]_vars

\* GroundPatch::indices
IndicesInit ==
    /\ \E res \in Resolutions : IndicesStart(res)
    /\ TerrainIdle /\ LodIdle /\ FlipIdle /\ RtInit

IndicesLoop == IndicesStep /\ UNCHANGED <<terrainVars, lodVars, flipVars, rtVars>>

IndicesDone == IndicesReturn /\ UNCHANGED <<terrainVars, lodVars, flipVars, rtVars>>

IndicesNext == IndicesLoop \/ IndicesDone

SpecIndices == IndicesInit /\ [][IndicesNext]_vars

\* flip_y
FlipInit ==
    /\ \E w \in 0..MaxWidth, h \in 0..MaxHeight, extra \in 0..MaxExtra : FlipStart(w, h, extra)
    /\ TerrainIdle /\ LodIdle /\ IndicesIdle /\ RtInit

Flip == FlipY /\ UNCHANGED <<terrainVars, lodVars, indicesVars, rtVars>>

FlipNext == Flip

SpecFlip == FlipInit /\ [][FlipNext]_vars

\* RenderTarget: the operations on one target, attachments of every size
OpSlots == {1}

Init == RtInit /\ TerrainIdle /\ LodIdle /\ IndicesIdle /\ FlipIdle

Others == UNCHANGED <<terrainVars, lodVars, indicesVars, flipVars, xfer, legacyVars>>

DoScreen == Others /\ \E s \in OpSlots, w \in Dims, h \in Dims : Screen(s, w, h)
DoNew == Others /\ \E s \in OpSlots, c \in Attachments, d \in Attachments : New(s, c, d)
DoNewColor == Others /\ \E s \in OpSlots, c \in Attachments : NewColor(s, c)
DoNewDepth == Others /\ \E s \in OpSlots, d \in Attachments : NewDepth(s, d)
DoFromFramebuffer ==
    Others /\ \E s \in OpSlots, w \in Dims, h \in Dims, fb \in Handles :
                 FromFramebuffer(s, w, h, fb)
DoIntoFramebuffer == Others /\ \E s \in OpSlots : IntoFramebuffer(s)
DoDrop == Others /\ \E s \in OpSlots : DropTarget(s)
DoWrite == Others /\ \E s \in OpSlots : Write(s)
DoWritePartially == Others /\ \E s \in OpSlots, box \in ScissorBoxes : WritePartially(s, box)
DoCopyFrom == Others /\ \E s \in OpSlots, c \in BOOLEAN, d \in BOOLEAN : CopyFrom(s, c, d)
DoCopyFromArray ==
    Others /\ \E s \in OpSlots, c \in BOOLEAN, d \in BOOLEAN : CopyFromArray(s, c, d)
DoReadColor == Others /\ \E s \in OpSlots : ReadColor(s)
DoReadColorPartially ==
    Others /\ \E s \in OpSlots, box \in ScissorBoxes : ReadColorPartially(s, box)

Next ==
    \/ DoScreen \/ DoNew \/ DoNewColor \/ DoNewDepth \/ DoFromFramebuffer
    \/ DoIntoFramebuffer \/ DoDrop
    \/ DoWrite \/ DoWritePartially \/ DoCopyFrom \/ DoCopyFromArray
    \/ DoReadColor \/ DoReadColorPartially

Spec == Init /\ [][Next]_vars

\* RenderTarget: construction, into_framebuffer and drop of several targets,
\* attachments of one size
UnitSize == <<1, 1>>

LifeScreen == Others /\ \E s \in Slots : Screen(s, 1, 1)
LifeNew == Others /\ \E s \in Slots : New(s, UnitSize, UnitSize)
LifeNewColor == Others /\ \E s \in Slots : NewColor(s, UnitSize)
LifeNewDepth == Others /\ \E s \in Slots : NewDepth(s, UnitSize)
LifeFromFramebuffer == Others /\ \E s \in Slots, fb \in Handles : FromFramebuffer(s, 1, 1, fb)
LifeIntoFramebuffer == Others /\ \E s \in Slots : IntoFramebuffer(s)
LifeDrop == Others /\ \E s \in Slots : DropTarget(s)

LifeNext ==
    \/ LifeScreen \/ LifeNew \/ LifeNewColor \/ LifeNewDepth
    \/ LifeFromFramebuffer \/ LifeIntoFramebuffer \/ LifeDrop

SpecLifecycle == Init /\ [][LifeNext]_vars

\* RenderTarget read-back: a target of each constructor, then reads
Constructed(op, t) ==
    /\ rts = [s \in Slots |-> IF s = 1 THEN t ELSE NoTarget]
    /\ allocated = IF t.id # None THEN 1 ELSE 0
    /\ held = IF op = "from_framebuffer" THEN {t.id} ELSE {}
    /\ deleted = [h \in Handles |-> 0]
    /\ aliased = [h \in Handles |-> FALSE]
    /\ gl = [draw |-> None, read |-> None, scissor |-> NoBox]
    /\ last = Call(op, t, NoBox, FALSE, FALSE)
    /\ log = IF op \in {"new", "new_color", "new_depth"}
             THEN <<"create_framebuffer">> ELSE <<>>
    /\ result = "ok"
    /\ XferIdle
    /\ LegacyIdle

ReadInit ==
    /\ TerrainIdle /\ LodIdle /\ IndicesIdle /\ FlipIdle
    /\ \/ \E w \in Dims, h \in Dims : Constructed("screen", RenderTargetScreen(w, h))
       \/ \E c \in Attachments, d \in Attachments :
              Constructed("new", RenderTargetNew(c, d, 1))
       \/ \E c \in Attachments : Constructed("new_color", RenderTargetNewColor(c, 1))
       \/ \E d \in Attachments : Constructed("new_depth", RenderTargetNewDepth(d, 1))
       \/ \E w \in Dims, h \in Dims :
              Constructed("from_framebuffer", RenderTargetFromFramebuffer(w, h, 1))

ReadFrame == UNCHANGED <<terrainVars, lodVars, indicesVars, flipVars, legacyVars>>

DoReadColorAs == ReadFrame /\ \E T \in PixelTypes : ReadColorAs(1, T)
DoReadColorPartiallyAs ==
    ReadFrame /\ \E T \in PixelTypes, b \in ScissorBoxes : ReadColorPartiallyAs(1, b, T)
DoReadDepth == ReadFrame /\ ReadDepth(1)
DoReadDepthPartially == ReadFrame /\ \E b \in ScissorBoxes : ReadDepthPartially(1, b)

ReadNext ==
    \/ DoReadColorAs \/ DoReadColorPartiallyAs
    \/ DoReadDepth \/ DoReadDepthPartially

SpecRead == ReadInit /\ [][ReadNext]_vars

\* rendertarget.rs: the targets of two variables, any interleaving of calls
LegacyInit ==
    /\ TerrainIdle /\ LodIdle /\ IndicesIdle /\ FlipIdle /\ RtInit

LegacyFrame ==
    UNCHANGED <<terrainVars, lodVars, indicesVars, flipVars,
                rts, allocated, held, deleted, aliased, gl, last, log, result, xfer>>

DoScreenRendertargetNew == LegacyFrame /\ \E s \in Slots : ScreenRendertargetNew(s)
DoColorRendertargetNew == LegacyFrame /\ \E s \in Slots : GeneratedNew(s, "color")
DoDepthRenderTargetNew == LegacyFrame /\ \E s \in Slots : GeneratedNew(s, "depth")
DoGenerateFails == LegacyFrame /\ \E s \in Slots : GenerateFails(s)
DoLegacyBind == LegacyFrame /\ \E s \in Slots : LegacyBind(s)
DoLegacyBindForRead == LegacyFrame /\ \E s \in Slots : LegacyBindForRead(s)
DoLegacyClear == LegacyFrame /\ \E s \in Slots : LegacyClear(s)
DoLegacyPixels == LegacyFrame /\ \E s \in Slots : LegacyPixels(s)
DoLegacyDepths == LegacyFrame /\ \E s \in Slots : LegacyDepths(s)
DoLegacyDrop == LegacyFrame /\ \E s \in Slots : LegacyDropTarget(s)

LegacyNext ==
    \/ DoScreenRendertargetNew \/ DoColorRendertargetNew \/ DoDepthRenderTargetNew
    \/ DoGenerateFails \/ DoLegacyBind \/ DoLegacyBindForRead \/ DoLegacyClear
    \/ DoLegacyPixels \/ DoLegacyDepths \/ DoLegacyDrop

SpecLegacy == LegacyInit /\ [][LegacyNext]_vars

\* RenderTarget: the same, and create_framebuffer can fail
AllocNewFails == Others /\ \E s \in Slots : ConstructFails(s, "new")
AllocNewColorFails == Others /\ \E s \in Slots : ConstructFails(s, "new_color")
AllocNewDepthFails == Others /\ \E s \in Slots : ConstructFails(s, "new_depth")

AllocNext ==
    \/ LifeScreen \/ LifeNew \/ LifeNewColor \/ LifeNewDepth
    \/ LifeFromFramebuffer \/ LifeIntoFramebuffer \/ LifeDrop
    \/ AllocNewFails \/ AllocNewColorFails \/ AllocNewDepthFails

SpecAlloc == Init /\ [][AllocNext]_vars

\* ------------------------------------------------------------------------
\* properties
\* ------------------------------------------------------------------------
Range(f) == {f[i] : i \in DOMAIN f}

InWindow(p, c) ==
    /\ Abs(p[1] - c[1]) <= HALF_PATCHES_PER_SIDE
    /\ Abs(p[2] - c[2]) <= HALF_PATCHES_PER_SIDE

\* C1: after Terrain::update to any position exactly PATCHES_PER_SIDE^2 patches
\* are live and every live patch is within HALF_PATCHES_PER_SIDE of the center
\* on both axes, the center being the patch coordinate of the new position.
C1_Window ==
    /\ BagCardinality(patches) = PATCHES_PER_SIDE * PATCHES_PER_SIDE
    /\ \A p \in BagToSet(patches) : InWindow(p, center)

\* an update that moved farther than the window is wide, on both axes
C1_Witness ==
    /\ Len(trail) > 1
    /\ Abs(center[1] - trail[1][1]) > PATCHES_PER_SIDE
    /\ Abs(center[2] - trail[1][2]) > PATCHES_PER_SIDE

\* the selection the specification states for a distance
StatedLod(dist) ==
    IF dist > 8 THEN "very_coarse_index_buffer"
    ELSE IF dist > 4 THEN "coarse_index_buffer"
    ELSE "index_buffer"

\* C2: index_buffer(x0, y0) selects, for dist = |ix - x0| + |iy - y0|, the
\* very-coarse buffer when dist > 8, the coarse buffer when 4 < dist <= 8 and
\* the fine buffer when dist <= 4.
C2_LodPolicy ==
    selected # "none" =>
        selected = StatedLod(Abs(patch[1] - camera[1]) + Abs(patch[2] - camera[2]))

\* C3: a RenderTarget built by new(color, depth) has width = color.width() =
\* depth.width() and height = color.height() = depth.height(); new does not
\* produce a target from attachments of different sizes.
C3_SameSize ==
    \A s \in Slots :
        (rts[s].live /\ rts[s].color # NoAttachment /\ rts[s].depth # NoAttachment) =>
            /\ rts[s].width = rts[s].color[1] /\ rts[s].width = rts[s].depth[1]
            /\ rts[s].height = rts[s].color[2] /\ rts[s].height = rts[s].depth[2]

\* C4 as stated: read_color fails both on a screen target (id None) and on a
\* depth-only target (id present, no color attachment).
C4_Original ==
    (/\ last.op = "read_color"
     /\ \/ last.tgt.id = None
        \/ last.tgt.id # None /\ last.tgt.color = NoAttachment /\ last.tgt.depth # NoAttachment)
        => result = "panic"

\* C4: read_color fails, before any context call, on a target that has a
\* framebuffer id and no color attachment (a depth-only target); on a screen
\* target (id None) it does not fail and reads the pixels back.
C4_ReadColorFailure ==
    last.op = "read_color" =>
        /\ (last.tgt.id # None /\ last.tgt.color = NoAttachment) =>
               (result = "panic" /\ log = <<>>)
        /\ last.tgt.id = None =>
               (result = "ok" /\ "read_pixels" \in Range(log))

\* read_color was called on a depth-only target
C4_Witness ==
    /\ last.op = "read_color"
    /\ last.tgt.id # None
    /\ last.tgt.color = NoAttachment
    /\ last.tgt.depth # NoAttachment
    /\ result = "panic"

\* C5: flip_y over a width x height buffer reverses the rows: the output at
\* (r, c) is the input at (height-1-r, c); no element is lost or duplicated
\* (and the elements after the width * height first stay in place).
C5_RowReversal ==
    flips = 1 =>
        /\ Len(pixels) = Len(original)
        /\ \A r \in 0..(fheight - 1), c \in 0..(fwidth - 1) :
               pixels[r * fwidth + c + 1] = original[(fheight - 1 - r) * fwidth + c + 1]
        /\ \A i \in (fwidth * fheight + 1)..Len(original) : pixels[i] = original[i]
        /\ \A v \in Range(original) :
               Cardinality({i \in DOMAIN pixels : pixels[i] = v}) = 1

\* one flip of a buffer of several rows and columns
C5_Witness == flips = 1 /\ fheight >= 3 /\ fwidth >= 2

\* C6: flip_y twice gives back the original buffer, for every width and
\* height; for an odd height one flip_y leaves the middle row unchanged.
C6_Involution ==
    /\ flips = 2 => pixels = original
    /\ (flips = 1 /\ fheight % 2 = 1) =>
           \A c \in 0..(fwidth - 1) :
               pixels[((fheight - 1) \div 2) * fwidth + c + 1]
                   = original[((fheight - 1) \div 2) * fwidth + c + 1]

\* two flips of a buffer of odd height, more than one row
C6_Witness == flips = 2 /\ fheight = 3 /\ fwidth >= 2

\* the patches of column ix of the window around c
WindowColumn(ix, c) == SetToBag({<<ix, iy>> : iy \in SideRange(c[2])})

FullWindow(c) == SetToBag({<<ix, iy>> : ix \in SideRange(c[1]), iy \in SideRange(c[2])})

\* C7: from a full window, an update to a patch coordinate that differs from
\* the center by +1 (or -1) in x and 0 in y moves center.x by 1, creates
\* exactly PATCHES_PER_SIDE patches, all in the column at the leading edge,
\* evicts exactly the column at the opposite edge and keeps every other patch.
C7_OneColumn ==
    [][(/\ patches = FullWindow(center)
        /\ center'[2] = center[2]
        /\ Abs(center'[1] - center[1]) = 1)
       => LET d == center'[1] - center[1]
          IN  /\ created' = PATCHES_PER_SIDE
              /\ patches' (-) patches =
                     WindowColumn(center'[1] + d * HALF_PATCHES_PER_SIDE, center)
              /\ patches (-) patches' =
                     WindowColumn(center[1] - d * HALF_PATCHES_PER_SIDE, center)
              /\ BagCardinality(patches') = BagCardinality(patches)]_vars

\* the last update moved the center by one patch along x
C7_Witness ==
    /\ Len(trail) = 2
    /\ trail[1][2] = center[2]
    /\ Abs(center[1] - trail[1][1]) = 1
    /\ created = PATCHES_PER_SIDE

\* C8: indices(resolution) returns 2 * ((VERTICES_PER_SIDE-1)/resolution)^2 * 3
\* indices, for every resolution in {1, 4, 8}.
C8_IndexCount ==
    ipc = "done" =>
        Len(indices) = 2 * ((VERTICES_PER_SIDE - 1) \div resolution)
                         * ((VERTICES_PER_SIDE - 1) \div resolution) * 3

\* indices(4) has returned
C8_Witness == ipc = "done" /\ resolution = 4 /\ Len(indices) > 0

IsCopy(c) == c.op \in {"copy_from", "copy_from_array"}

\* C9 as stated: copy_from / copy_from_array with both sources absent issue no
\* draw and leave the bound draw framebuffer, the scissor box and the color
\* attachment's mip chain as they were.
C9_Original ==
    [][(IsCopy(last') /\ ~last'.color /\ ~last'.depth)
       => /\ "draw" \notin Range(log')
          /\ "generate_mip_maps" \notin Range(log')
          /\ gl'.draw = gl.draw
          /\ gl'.scissor = gl.scissor]_vars

\* C9: copy_from / copy_from_array with both sources absent issue no draw; the
\* call still sets the scissor box to the whole target, binds the target as
\* the draw framebuffer and regenerates the mip chain of the color attachment
\* when the target has one.
C9_NoDraw ==
    (IsCopy(last) /\ ~last.color /\ ~last.depth) =>
        /\ "draw" \notin Range(log)
        /\ log[1] = "set_scissor"
        /\ log[2] = "bind_draw_framebuffer"
        /\ ("generate_mip_maps" \in Range(log)) <=> (last.tgt.color # NoAttachment)
        /\ gl.draw = last.tgt.id
        /\ gl.scissor = [x |-> 0, y |-> 0, width |-> last.tgt.width,
                         height |-> last.tgt.height]

\* copy_from(None, None) was called on a target with a color attachment
C9_Witness ==
    /\ last.op = "copy_from"
    /\ ~last.color /\ ~last.depth
    /\ last.tgt.color # NoAttachment
    /\ last.tgt.id # None

Holders(h) == {s \in Slots : rts[s].live /\ rts[s].id = h}

\* C10 as stated: over any sequence of constructions, into_framebuffer calls
\* and drops, a handle held by a RenderTarget is deleted exactly once, at the
\* drop of that target, never while the target is live and never twice; the
\* drop of a screen target deletes nothing; a handle taken out with
\* into_framebuffer is not deleted by the drop of the target it came from.
C10_Original ==
    /\ \A h \in Handles : deleted[h] <= 1
    /\ \A h \in Handles : Holders(h) # {} => deleted[h] = 0
    /\ last.op = "drop" =>
           log = IF last.tgt.id # None THEN <<"delete_framebuffer">> ELSE <<>>
    /\ last.op = "into_framebuffer" => log = <<>>

\* C10: the drop of a RenderTarget deletes the handle it holds, once, and
\* nothing if it holds none (screen target); into_framebuffer deletes nothing;
\* a handle a constructor allocated and that was never taken out is deleted
\* exactly once, at the drop of its target and not before; a handle taken out
\* is deleted at most once, and never while a live target holds it, as long as
\* no from_framebuffer call got it while a live target held it or after it was
\* deleted (the handle is Copy and from_framebuffer does not check).
C10_DeleteOnDrop ==
    /\ last.op = "drop" =>
           log = IF last.tgt.id # None THEN <<"delete_framebuffer">> ELSE <<>>
    /\ last.op = "into_framebuffer" => log = <<>>
    /\ \A h \in 1..allocated :
           h \notin held =>
               /\ Cardinality(Holders(h)) <= 1
               /\ deleted[h] = IF Holders(h) = {} THEN 1 ELSE 0
    /\ \A h \in Handles :
           ~aliased[h] =>
               /\ deleted[h] <= 1
               /\ Holders(h) # {} => deleted[h] = 0

\* a handle went through into_framebuffer and from_framebuffer and was then
\* deleted by the drop of the target built from it
C10_Witness ==
    /\ last.op = "drop"
    /\ last.tgt.id # None
    /\ last.tgt.id \in held
    /\ ~aliased[last.tgt.id]
    /\ deleted[last.tgt.id] = 1

IsBacked(c) == c.op \in {"new", "new_color", "new_depth"}

\* C11: when create_framebuffer fails during the construction of a backed
\* render target, the constructor returns an error value to the caller (it
\* does not abort), and create_framebuffer is not called again.
C11_Recoverable ==
    (IsBacked(last) /\ ~last.tgt.live) =>
        /\ result = "err"
        /\ log = <<"create_framebuffer">>

\* the positions of a call in the context calls of the last operation
Positions(call) == {i \in DOMAIN log : log[i] = call}

\* C12: write and write_partially apply the scissor box and bind the target
\* for drawing before the closure starts, run the closure exactly once, and
\* regenerate the mip maps only after the closure, if and only if the target
\* has a color attachment.
C12_WriteOrder ==
    last.op = "write" =>
        /\ result = "ok"
        /\ Cardinality(Positions("render")) = 1
        /\ gl.scissor = last.box
        /\ gl.draw = last.tgt.id
        /\ \A r \in Positions("render") :
            /\ \E i \in Positions("set_scissor") : i < r
            /\ \E i \in Positions("bind_draw_framebuffer") : i < r
            /\ \A i \in Positions("generate_mip_maps") : r < i
        /\ Cardinality(Positions("generate_mip_maps")) =
                (IF last.tgt.color # NoAttachment THEN 1 ELSE 0)

C12_Witness ==
    /\ last.op = "write"
    /\ last.tgt.color # NoAttachment
    /\ last.box \in ScissorBoxes
    /\ log[Len(log)] = "generate_mip_maps"

\* step i of the last update: trail[i] -> trail[i + 1]
StepX(i) == trail[i + 1][1] - trail[i][1]
StepY(i) == trail[i + 1][2] - trail[i][2]

\* the steps of the last update are unit steps along one axis, x steps first,
\* never back, with PATCHES_PER_SIDE patches created per step
UnitSteps ==
    LET n == Len(trail) - 1
    IN  /\ \A i \in 1..n : Abs(StepX(i)) + Abs(StepY(i)) = 1
        /\ \A i \in 1..n : \A j \in 1..n : (i < j /\ StepY(i) # 0) => StepX(j) = 0
        /\ n = Abs(center[1] - trail[1][1]) + Abs(center[2] - trail[1][2])
        /\ created = PATCHES_PER_SIDE * n
        /\ trail[n + 1] = center

\* C15: one Terrain::update moves the center in steps of one patch along one
\* axis, all x steps before any y step, creates PATCHES_PER_SIDE patches per
\* step (PATCHES_PER_SIDE * (|dx| + |dy|) in all) and ends with the center at
\* the patch coordinate of the position.
C15_UnitSteps ==
    [][\A x \in WorldCoords, z \in WorldCoords :
          TerrainUpdate(<<x, z>>) =>
              /\ center' = pos2patch(<<x, z>>)
              /\ trail'[1] = center
              /\ UnitSteps']_vars

\* the last update moved up by several patches in x and down in y
C15_Witness ==
    /\ Len(trail) > 4
    /\ center[1] - trail[1][1] >= 2
    /\ center[2] - trail[1][2] <= -2
    /\ created = PATCHES_PER_SIDE * (Len(trail) - 1)

\* C18: after new and after every update, every cell of the window around
\* the center holds exactly one live patch and there is no other live patch.
C18_ExactCover == patches = FullWindow(center)

\* an update that moved diagonally by several patches, to a window that
\* overlaps the window it left
C18_Witness ==
    /\ Len(trail) > 2
    /\ center[1] # trail[1][1]
    /\ center[2] # trail[1][2]
    /\ Abs(center[1] - trail[1][1]) < PATCHES_PER_SIDE
    /\ Abs(center[2] - trail[1][2]) < PATCHES_PER_SIDE
    /\ BagCardinality(patches) = PATCHES_PER_SIDE * PATCHES_PER_SIDE

\* C19: every index that indices(resolution) produces is a vertex id, below
\* VERTICES_PER_SIDE * VERTICES_PER_SIDE; every term of the sums is
\* non-negative, so no intermediate value exceeds the index and none wraps.
C19_ValidIndices ==
    \A i \in DOMAIN indices :
        /\ indices[i] >= 0
        /\ indices[i] < VERTICES_PER_SIDE * VERTICES_PER_SIDE

\* the coarsest resolution has returned; its last index is its largest
C19_Witness ==
    /\ ipc = "done"
    /\ resolution = 8
    /\ Len(indices) > 0
    /\ indices[Len(indices)] = IndicesMax(8) * 8 * (Stride + 1)
    /\ \A i \in DOMAIN indices : indices[i] <= indices[Len(indices)]

\* the last call was a read of `op` that returned
ReadReturned(op) == last.op = op /\ result = "ok"

Pixels(box) == box.width * box.height

\* C13: in read_color_partially a pixel type with one byte per channel (1, 2,
\* 3 or 4 channels) is read with the RGBA format into a buffer of
\* width * height * 4 bytes; any other pixel type is read into a buffer of
\* width * height * size_of(T) bytes.
C13_ByteIsRgba ==
    ReadReturned("read_color") =>
        IF xfer.type[2] = 1
        THEN /\ xfer.format = "RGBA"
             /\ xfer.bytes = Pixels(last.box) * 4
        ELSE xfer.bytes = Pixels(last.box) * size_of(xfer.type)

\* C14: read_depth / read_depth_partially panics on a target that has a
\* framebuffer id and no depth attachment, before any bind and any
\* read_pixels; it returns on a target with a depth attachment.
C14_ReadDepthFailure ==
    last.op = "read_depth" =>
        /\ (last.tgt.id # None /\ last.tgt.depth = NoAttachment) =>
               /\ result = "panic"
               /\ log = <<>>
               /\ xfer = NoXfer
        /\ last.tgt.depth # NoAttachment =>
               /\ result = "ok"
               /\ "read_pixels" \in Range(log)

\* read_depth panicked on a from_framebuffer target
C14_Witness ==
    /\ last.op = "read_depth"
    /\ result = "panic"
    /\ last.tgt.id # None
    /\ last.tgt.color = NoAttachment
    /\ last.tgt.depth = NoAttachment

\* C16: read_depth_partially returns width * height samples and row r of the
\* result is row height-1-r of the framebuffer, as for read_color_partially.
C16_DepthFlipped ==
    ReadReturned("read_depth") =>
        LET w == last.box.width
            h == last.box.height
        IN  /\ Len(xfer.data) = w * h
            /\ \A r \in 0..(h - 1) : \A c \in 0..(w - 1) :
                   xfer.data[w * r + c + 1] = w * (h - 1 - r) + c + 1

\* C20: read_color_partially returns width * height values, one per pixel of
\* the scissor box, for every pixel type.
C20_OnePerPixel ==
    ReadReturned("read_color") => Len(xfer.data) = Pixels(last.box)

\* C17: every read-back reads the framebuffer of the target it was called
\* on: when read_pixels / read_depths is issued, the framebuffer bound to
\* READ_FRAMEBUFFER is that target's own, for read_color and read_depth of
\* RenderTarget and for pixels() and depths() of the three legacy targets,
\* whatever was bound before.
C17_ReadsOwnFramebuffer ==
    /\ (ReadReturned("read_color") \/ ReadReturned("read_depth")) =>
           gl.read = last.tgt.id
    /\ lcall.op \in {"pixels", "depths"} => lcall.from = lcall.own
====
